---------------------------- MODULE Spec2Model ----------------------------
(***************************************************************************)
(* Model of src/environment/jvmti.rs of rust-jvmti: the JVMTI trait and    *)
(* its implementation JVMTIEnvironment, the facade over the native JVM TI  *)
(* environment, together with the process-wide callback slots it fills     *)
(* and the native runtime that fires events through the trampolines.       *)
(*                                                                         *)
(* One caller thread drives the facade; the native runtime may fire an     *)
(* event at any moment, also between two statements of a running           *)
(* set_event_callbacks.                                                    *)
(***************************************************************************)
EXTENDS Integers, Sequences, FiniteSets, TLC

\* ------------------------------------------------------------------ bounds

\* How many of the 18 event kinds of set_event_callbacks are modelled (the
\* first NumKinds in the order in which the code registers them).
NumKinds == 2

\* How many capability flags (bit positions of jvmtiCapabilities) are modelled.
NumCaps == 2

\* ------------------------------------------------------------- value sets

\* The event kinds, in the order of the register_* calls of set_event_callbacks.
KindOrder ==
  << "vm_init", "vm_start", "vm_death", "vm_object_alloc", "method_entry",
     "method_exit", "thread_start", "thread_end", "exception",
     "exception_catch", "monitor_wait", "monitor_waited",
     "monitor_contended_enter", "monitor_contended_entered", "field_access",
     "field_modification", "garbage_collection_start",
     "garbage_collection_finish" >>

Kinds == { KindOrder[i] : i \in 1..NumKinds }

\* Option<fn>: None, or one of two distinct user handler functions.
None == "None"
Handlers == {"h1", "h2"}
OptHandler == Handlers \cup {None}

\* EventCallbacks: one optional handler per event kind.
EventCallbacks == [Kinds -> OptHandler]

\* The JVMTIEnvironment instances of the process.
Envs == {"A", "B"}

\* Capabilities: named boolean flags; jvmtiCapabilities: one bit per flag.
CapOrder ==
  << "can_tag_objects", "can_generate_field_modification_events",
     "can_generate_field_access_events", "can_get_bytecodes" >>

CapNames == { CapOrder[i] : i \in 1..NumCaps }
Capabilities == [CapNames -> BOOLEAN]
jvmtiCapabilities == [1..NumCaps -> {0, 1}]

\* Capabilities::new(): every flag false.
Capabilities_new == [c \in CapNames |-> FALSE]

\* Status codes a native call may return: success, a defined error, and a
\* code no variant of NativeError names.
StatusCodes == {0, 99, 12345}

\* Native thread handles, and what GetThreadInfo may write into the record.
JavaThreads == {"t1", "t2"}
NullPtr == "null"
NativeNames == {NullPtr, "main"}
NativePriorities == {5, 10}
NativeDaemon == {0, 1}

\* Packed version words GetVersionNumber may write (1.2.3 and 1.0.0).
VersionWords == {805372419, 805371904}


\* ------------------------------------------------------- pure conversions

\* error::wrap_error: 0 is the success sentinel, a defined code its named
\* variant, any other code the catch-all.
wrap_error(code) ==
  CASE code = 0 -> "NoError"
    [] code = 99 -> "MustPossessCapability"
    [] OTHER -> "UnknownError"

\* Capabilities::to_native: each named flag into its bit position.
to_native(caps) ==
  [i \in 1..NumCaps |-> IF caps[CapOrder[i]] THEN 1 ELSE 0]

\* Capabilities::from_native: each bit position back into its named flag.
from_native(native_caps) ==
  [c \in CapNames |->
     native_caps[CHOOSE i \in 1..NumCaps : CapOrder[i] = c] = 1]

\* `as u32` of a 32-bit signed integer: the same 32 bits read as unsigned,
\* held as two 16-bit halves (hi * 65536 + lo).
as_u32(x) == [ hi |-> (x \div 65536) % 65536, lo |-> x % 65536 ]

\* VersionNumber::from_u32: major, minor and micro out of the packed word
\* (mask 0x0FFF0000 >> 16, mask 0x0000FF00 >> 8, mask 0x000000FF).
from_u32(uversion) ==
  [ major |-> uversion.hi % 4096,
    minor |-> uversion.lo \div 256,
    micro |-> uversion.lo % 256 ]

\* util::stringify: a null buffer decodes to the empty string.
stringify(name) == IF name = NullPtr THEN "" ELSE name

\* event_handler::register_*_callback: overwrite the one slot of the kind.
register_callback(table, kind, callback) ==
  [table EXCEPT ![kind] = callback]

\* event_handler::registered_callbacks: the native table, every supported
\* kind pointing to its fixed trampoline (the set of kinds so populated).
registered_callbacks == Kinds

\* event_handler trampoline of a kind: the handler it forwards to, read from
\* the slot at the moment it runs; None when the slot is empty (a no-op).
trampoline(table, kind) == table[kind]

\* ------------------------------------------------------ the native runtime

\* The native environment behind a JVMTIEnvPtr: the installed callback
\* table (the kinds with a non-null entry), the kinds whose notification is
\* enabled, and the capability bitfield.
NativeEnv ==
  [ callbacks : SUBSET Kinds, enabled : SUBSET Kinds,
    capabilities : jvmtiCapabilities ]

NativeEnv_new ==
  [ callbacks |-> {}, enabled |-> {},
    capabilities |-> to_native(Capabilities_new) ]

\* GetVersionNumber: fills the output word on success only.
GetVersionNumber(version_buf, word, status) ==
  IF status = 0 THEN word ELSE version_buf

\* AddCapabilities: on success the new flags are or-ed into the
\* environment's set and all previous ones are retained; on failure nothing
\* changes.
AddCapabilities(env, native_caps, status) ==
  IF status = 0
    THEN [env EXCEPT !.capabilities =
            [i \in 1..NumCaps |->
               IF env.capabilities[i] = 1 \/ native_caps[i] = 1 THEN 1 ELSE 0]]
    ELSE env

\* GetCapabilities: fills the output struct on success only.
GetCapabilities(env, caps_buf, status) ==
  IF status = 0 THEN env.capabilities ELSE caps_buf

\* SetEventCallbacks: on success the supplied table replaces the installed
\* one as a whole; on failure the installed one stays.
SetEventCallbacks(env, native_callbacks, status) ==
  IF status = 0 THEN [env EXCEPT !.callbacks = native_callbacks] ELSE env

\* SetEventNotificationMode: on success switches the one event kind on
\* (mode 1) or off (mode 0); on failure nothing changes.
SetEventNotificationMode(env, mode_i, event, status) ==
  IF status = 0
    THEN [env EXCEPT !.enabled =
            IF mode_i = 1 THEN @ \cup {event} ELSE @ \ {event}]
    ELSE env

\* GetThreadInfo: fills the output record on success only.
GetThreadInfo(info_buf, native_info, status) ==
  IF status = 0 THEN native_info ELSE info_buf

\* Mutant of EventSent: the notification mode is not consulted.
EventSent_ignores_mode(env, kind) == kind \in env.callbacks

\* Mutant of EventSent: the installed table is not consulted.
EventSent_ignores_table(env, kind) == kind \in env.enabled

\* The runtime sends an event of a kind to the agent when the kind is
\* enabled and the installed table has a callback for it.
EventSent(env, kind) == kind \in env.enabled /\ kind \in env.callbacks

\* An event of a kind occurs in the runtime of env: the handlers called, in
\* order. If the event is sent the kind's trampoline runs, and calls the
\* handler it finds in the slot.
dispatch(table, env, kind) ==
  IF EventSent(env, kind) /\ trampoline(table, kind) # None
    THEN << trampoline(table, kind) >>
    ELSE << >>

\* What GetThreadInfo may report for a thread.
NativeThreadInfos ==
  [ name : NativeNames, priority : NativePriorities, is_daemon : NativeDaemon ]


\* A record for the calls in which GetThreadInfo writes none.
AnyThreadInfo == CHOOSE info \in NativeThreadInfos : TRUE


\* ------------------------------------------------------------------ state

VARIABLES
  slots,      \* the process-wide handler slots, one Option<fn> per event kind
  registry,   \* "Unconfigured" until a set_event_callbacks call has returned
  jvmti,      \* the native environment behind each JVMTIEnvironment
  pc,         \* the running set_event_callbacks: 0 when none runs, i when its
              \* i-th register call is next, NumKinds + 1 when the native
              \* SetEventCallbacks call is next
  self,       \* the environment the running (or last) set_event_callbacks is
              \* called on
  callbacks,  \* the argument of the running (or last) set_event_callbacks
  old,        \* the slots as they were when the running call began
  ret,        \* the operation of the last step and what it returned
  invoked     \* the user handlers the last step invoked, in order

vars == << slots, registry, jvmti, pc, self, callbacks, old, ret, invoked >>

NoEnv == "none"
NoThread ==
  [ id |-> NullPtr, name |-> "", priority |-> as_u32(0), is_daemon |-> FALSE ]

\* The value of ret after a step that returned nothing.
NoRet ==
  [ op |-> "none", tag |-> "none", err |-> "none", calls |-> 0,
    caps |-> Capabilities_new, version |-> from_u32(as_u32(0)), thread |-> NoThread ]

Ret(op, tag, calls) == [NoRet EXCEPT !.op = op, !.tag = tag, !.calls = calls]

Init ==
  /\ slots = [k \in Kinds |-> None]
  /\ registry = "Unconfigured"
  /\ jvmti = [e \in Envs |-> NativeEnv_new]
  /\ pc = 0
  /\ self = NoEnv
  /\ callbacks = [k \in Kinds |-> None]
  /\ old = [k \in Kinds |-> None]
  /\ ret = NoRet
  /\ invoked = << >>

\* ------------------------------------------- the facade, as value operators
\* Each takes the native environment of self and the statuses the native
\* calls return, and gives the value returned (ret) and the environment
\* afterwards (env).

get_version_number(env, word, status) ==
  LET version == GetVersionNumber(0, word, status)
      uversion == as_u32(version)
  IN  [ env |-> env,
        ret |-> [Ret("get_version_number", "Value", 1)
                   EXCEPT !.version = from_u32(uversion)] ]

get_capabilities(env, status) ==
  LET caps == Capabilities_new
      native_caps == GetCapabilities(env, to_native(caps), status)
  IN  [ env |-> env,
        ret |-> [Ret("get_capabilities", "Value", 1)
                   EXCEPT !.caps = from_native(native_caps)] ]

\* Mutant of add_capabilities: the status of AddCapabilities is not looked
\* at.
add_capabilities_unchecked(env, new_capabilities, status, status2) ==
  LET native_caps == to_native(new_capabilities)
      env2 == AddCapabilities(env, native_caps, status)
  IN  [ env |-> env2,
        ret |-> [Ret("add_capabilities", "Ok", 2)
                   EXCEPT !.caps = get_capabilities(env2, status2).ret.caps] ]

add_capabilities(env, new_capabilities, status, status2) ==
  LET native_caps == to_native(new_capabilities)
      env2 == AddCapabilities(env, native_caps, status)
      err == wrap_error(status)
      got == get_capabilities(env2, status2).ret
  IN  IF err = "NoError"
        THEN [ env |-> env2,
               ret |-> [Ret("add_capabilities", "Ok", 1 + got.calls)
                          EXCEPT !.caps = got.caps] ]
        ELSE [ env |-> env2,
               ret |-> [Ret("add_capabilities", "Err", 1) EXCEPT !.err = err] ]

\* Mutant of set_event_notification_mode: without an installed callback
\* table the call returns at once.
set_event_notification_mode_needs_table(env, event, mode, status) ==
  LET mode_i == IF mode THEN 1 ELSE 0
      env2 == IF env.callbacks = {}
                THEN env
                ELSE SetEventNotificationMode(env, mode_i, event, status)
      err == wrap_error(status)
  IN  IF err = "NoError"
        THEN [ env |-> env2, ret |-> Ret("set_event_notification_mode", "None", 1) ]
        ELSE [ env |-> env2,
               ret |-> [Ret("set_event_notification_mode", "Some", 1)
                          EXCEPT !.err = err] ]

\* Mutant of set_event_notification_mode: disabling one kind disables every
\* kind.
set_event_notification_mode_disables_all(env, event, mode, status) ==
  LET mode_i == IF mode THEN 1 ELSE 0
      env1 == SetEventNotificationMode(env, mode_i, event, status)
      env2 == IF mode \/ status # 0 THEN env1 ELSE [env1 EXCEPT !.enabled = {}]
      err == wrap_error(status)
  IN  IF err = "NoError"
        THEN [ env |-> env2, ret |-> Ret("set_event_notification_mode", "None", 1) ]
        ELSE [ env |-> env2,
               ret |-> [Ret("set_event_notification_mode", "Some", 1)
                          EXCEPT !.err = err] ]

\* Mutant of set_event_notification_mode: disabling a kind uninstalls the
\* environment's callback table.
set_event_notification_mode_drops_table(env, event, mode, status) ==
  LET mode_i == IF mode THEN 1 ELSE 0
      env1 == SetEventNotificationMode(env, mode_i, event, status)
      env2 == IF mode \/ status # 0 THEN env1 ELSE [env1 EXCEPT !.callbacks = {}]
      err == wrap_error(status)
  IN  IF err = "NoError"
        THEN [ env |-> env2, ret |-> Ret("set_event_notification_mode", "None", 1) ]
        ELSE [ env |-> env2,
               ret |-> [Ret("set_event_notification_mode", "Some", 1)
                          EXCEPT !.err = err] ]

set_event_notification_mode(env, event, mode, status) ==
  LET mode_i == IF mode THEN 1 ELSE 0
      env2 == SetEventNotificationMode(env, mode_i, event, status)
      err == wrap_error(status)
  IN  IF err = "NoError"
        THEN [ env |-> env2, ret |-> Ret("set_event_notification_mode", "None", 1) ]
        ELSE [ env |-> env2,
               ret |-> [Ret("set_event_notification_mode", "Some", 1)
                          EXCEPT !.err = err] ]

\* Mutant of get_thread_info: the daemon flag is taken from the priority
\* field.
get_thread_info_daemon_from_priority(env, thread_id, bound, native_info, status) ==
  LET info == [ name |-> NullPtr, priority |-> 0, is_daemon |-> 0 ]
  IN  IF bound
        THEN LET info2 == GetThreadInfo(info, native_info, status)
                 err == wrap_error(status)
             IN  IF err = "NoError"
                   THEN [ env |-> env,
                          ret |-> [Ret("get_thread_info", "Ok", 1)
                                     EXCEPT !.thread =
                                       [ id |-> thread_id,
                                         name |-> stringify(info2.name),
                                         priority |-> as_u32(info2.priority),
                                         is_daemon |-> info2.priority > 0 ]] ]
                   ELSE [ env |-> env,
                          ret |-> [Ret("get_thread_info", "Err", 1)
                                     EXCEPT !.err = err] ]
        ELSE [ env |-> env,
               ret |-> [Ret("get_thread_info", "Err", 0) EXCEPT !.err = "NoError"] ]

get_thread_info(env, thread_id, bound, native_info, status) ==
  LET info == [ name |-> NullPtr, priority |-> 0, is_daemon |-> 0 ]
  IN  IF bound
        THEN LET info2 == GetThreadInfo(info, native_info, status)
                 err == wrap_error(status)
             IN  IF err = "NoError"
                   THEN [ env |-> env,
                          ret |-> [Ret("get_thread_info", "Ok", 1)
                                     EXCEPT !.thread =
                                       [ id |-> thread_id,
                                         name |-> stringify(info2.name),
                                         priority |-> as_u32(info2.priority),
                                         is_daemon |-> info2.is_daemon > 0 ]] ]
                   ELSE [ env |-> env,
                          ret |-> [Ret("get_thread_info", "Err", 1)
                                     EXCEPT !.err = err] ]
        ELSE [ env |-> env,
               ret |-> [Ret("get_thread_info", "Err", 0) EXCEPT !.err = "NoError"] ]

\* The register calls of set_event_callbacks from the i-th on, in order.
RECURSIVE register_all(_, _, _)
register_all(table, cbs, i) ==
  IF i > NumKinds
    THEN table
    ELSE register_all(register_callback(table, KindOrder[i], cbs[KindOrder[i]]),
                      cbs, i + 1)

\* Mutant of install_callbacks: a failed SetEventCallbacks is tried a second
\* time.
install_callbacks_retries(env, status) ==
  LET native_callbacks == registered_callbacks
      env2 == SetEventCallbacks(env, native_callbacks, status)
      err == wrap_error(status)
  IN  IF err = "NoError"
        THEN [ env |-> env2, ret |-> Ret("set_event_callbacks", "None", 1) ]
        ELSE [ env |-> SetEventCallbacks(env2, native_callbacks, status),
               ret |-> [Ret("set_event_callbacks", "Some", 2) EXCEPT !.err = err] ]

\* The tail of set_event_callbacks: the native table is built and installed.
install_callbacks(env, status) ==
  LET native_callbacks == registered_callbacks
      env2 == SetEventCallbacks(env, native_callbacks, status)
      err == wrap_error(status)
  IN  IF err = "NoError"
        THEN [ env |-> env2, ret |-> Ret("set_event_callbacks", "None", 1) ]
        ELSE [ env |-> env2,
               ret |-> [Ret("set_event_callbacks", "Some", 1) EXCEPT !.err = err] ]

\* set_event_callbacks run from its first statement to its last with nothing
\* in between: the slots, the environment and the value returned.
set_event_callbacks(table, env, cbs, status) ==
  LET r == install_callbacks(env, status)
  IN  [ slots |-> register_all(table, cbs, 1), env |-> r.env, ret |-> r.ret ]


\* ---------------------------------------------------------------- actions
\* The caller's thread runs one facade operation at a time (pc = 0 between
\* two of them).

Call_get_version_number(e, word, status) ==
  /\ pc = 0
  /\ ret' = get_version_number(jvmti[e], word, status).ret
  /\ invoked' = << >>
  /\ UNCHANGED << slots, registry, jvmti, pc, self, callbacks, old >>

Call_get_capabilities(e, status) ==
  /\ pc = 0
  /\ ret' = get_capabilities(jvmti[e], status).ret
  /\ invoked' = << >>
  /\ UNCHANGED << slots, registry, jvmti, pc, self, callbacks, old >>

Call_add_capabilities(e, new_capabilities, status, status2) ==
  /\ pc = 0
  /\ LET r == add_capabilities(jvmti[e], new_capabilities, status, status2)
     IN  /\ jvmti' = [jvmti EXCEPT ![e] = r.env]
         /\ ret' = r.ret
  /\ invoked' = << >>
  /\ UNCHANGED << slots, registry, pc, self, callbacks, old >>

Call_set_event_notification_mode(e, event, mode, status) ==
  /\ pc = 0
  /\ LET r == set_event_notification_mode(jvmti[e], event, mode, status)
     IN  /\ jvmti' = [jvmti EXCEPT ![e] = r.env]
         /\ ret' = r.ret
  /\ invoked' = << >>
  /\ UNCHANGED << slots, registry, pc, self, callbacks, old >>

Call_get_thread_info(e, thread_id, bound, native_info, status) ==
  /\ pc = 0
  /\ ret' = get_thread_info(jvmti[e], thread_id, bound, native_info, status).ret
  /\ invoked' = << >>
  /\ UNCHANGED << slots, registry, jvmti, pc, self, callbacks, old >>

\* set_event_callbacks is entered: the argument is moved in.
Call_set_event_callbacks(e, cbs) ==
  /\ pc = 0
  /\ pc' = 1
  /\ self' = e
  /\ callbacks' = cbs
  /\ old' = slots
  /\ ret' = NoRet
  /\ invoked' = << >>
  /\ UNCHANGED << slots, registry, jvmti >>

\* Mutant of Register: every register call is passed the first field of the
\* argument.
Register_first_field ==
  /\ pc \in 1..NumKinds
  /\ slots' = register_callback(slots, KindOrder[pc], callbacks[KindOrder[1]])
  /\ pc' = pc + 1
  /\ ret' = NoRet
  /\ invoked' = << >>
  /\ UNCHANGED << registry, jvmti, self, callbacks, old >>

\* Mutant of Register: a slot that holds a handler keeps it.
Register_keeps_existing ==
  /\ pc \in 1..NumKinds
  /\ slots' = IF slots[KindOrder[pc]] # None
                THEN slots
                ELSE register_callback(slots, KindOrder[pc], callbacks[KindOrder[pc]])
  /\ pc' = pc + 1
  /\ ret' = NoRet
  /\ invoked' = << >>
  /\ UNCHANGED << registry, jvmti, self, callbacks, old >>

\* The pc-th register call of the running set_event_callbacks.
Register ==
  /\ pc \in 1..NumKinds
  /\ slots' = register_callback(slots, KindOrder[pc], callbacks[KindOrder[pc]])
  /\ pc' = pc + 1
  /\ ret' = NoRet
  /\ invoked' = << >>
  /\ UNCHANGED << registry, jvmti, self, callbacks, old >>

\* Mutant of Return_set_event_callbacks: a failed install puts the slots
\* back as they were at entry.
Return_set_event_callbacks_rollback(status) ==
  /\ pc = NumKinds + 1
  /\ LET r == install_callbacks(jvmti[self], status)
     IN  /\ jvmti' = [jvmti EXCEPT ![self] = r.env]
         /\ ret' = r.ret
         /\ slots' = IF r.ret.tag = "Some" THEN old ELSE slots
  /\ registry' = "Configured"
  /\ pc' = 0
  /\ old' = slots'
  /\ invoked' = << >>
  /\ UNCHANGED << self, callbacks >>

\* The native call of the running set_event_callbacks, and its return.
Return_set_event_callbacks(status) ==
  /\ pc = NumKinds + 1
  /\ LET r == install_callbacks(jvmti[self], status)
     IN  /\ jvmti' = [jvmti EXCEPT ![self] = r.env]
         /\ ret' = r.ret
  /\ registry' = "Configured"
  /\ pc' = 0
  /\ old' = slots
  /\ invoked' = << >>
  /\ UNCHANGED << slots, self, callbacks >>

\* An event of a kind occurs in the runtime of environment e, on a thread of
\* the runtime: if the runtime sends it, the kind's trampoline runs and
\* forwards to the handler in the slot.
NativeEvent(e, kind) ==
  /\ invoked' = dispatch(slots, jvmti[e], kind)
  /\ ret' = Ret("event", "none", 0)
  /\ UNCHANGED << slots, registry, jvmti, pc, self, callbacks, old >>

\* The queries and the capability operations, called on an environment of E.
Queries(E) ==
  \/ \E e \in E, word \in VersionWords, status \in StatusCodes :
       Call_get_version_number(e, word, status)
  \/ \E e \in E, status \in StatusCodes : Call_get_capabilities(e, status)
  \/ \E e \in E, n \in Capabilities :
       \* the status of the follow-up query matters after a success only
       \/ \E status2 \in StatusCodes : Call_add_capabilities(e, n, 0, status2)
       \/ \E status \in StatusCodes \ {0} : Call_add_capabilities(e, n, status, 0)
  \/ \E e \in E, t \in JavaThreads :
       \* the record matters when the bound function succeeds only, and the
       \* status when the function is bound only
       \/ \E info \in NativeThreadInfos : Call_get_thread_info(e, t, TRUE, info, 0)
       \/ \E status \in StatusCodes \ {0} :
            Call_get_thread_info(e, t, TRUE, AnyThreadInfo, status)
       \/ Call_get_thread_info(e, t, FALSE, AnyThreadInfo, 0)

\* The event operations, called on an environment of E, and the events the
\* runtime of an environment of E fires.
Events(E) ==
  \/ \E e \in E, event \in Kinds, mode \in BOOLEAN, status \in StatusCodes :
       Call_set_event_notification_mode(e, event, mode, status)
  \/ \E e \in E, cbs \in EventCallbacks : Call_set_event_callbacks(e, cbs)
  \/ Register
  \/ \E status \in StatusCodes : Return_set_event_callbacks(status)
  \/ \E e \in E, kind \in Kinds : NativeEvent(e, kind)

\* The agent's environment, where a process has one.
Agent == {"A"}

\* One environment, every operation.
Next == Queries(Agent) \/ Events(Agent)

Spec == Init /\ [][Next]_vars

\* One environment, the event callback registry alone.
NextEvents == Events(Agent)

SpecEvents == Init /\ [][NextEvents]_vars

\* One environment, the version, capability and thread queries alone.
NextQueries == Queries(Agent)

SpecQueries == Init /\ [][NextQueries]_vars

\* Two environments sharing the process-wide slots, the registry alone.
NextTwoEnvs == Events(Envs)

SpecTwoEnvs == Init /\ [][NextTwoEnvs]_vars


\* ---------------------------------------------------------------- claims

\* C1 (registry totality): once a set_event_callbacks call has returned and
\* until the next one is entered, the trampoline of every event kind
\* forwards to exactly the entry the argument of that most recent call has
\* for the kind: its handler, or nothing when the entry is None, whatever
\* earlier calls had registered.
C1_RegistryTotality ==
  (pc = 0 /\ registry = "Configured") =>
    \A k \in Kinds : trampoline(slots, k) = callbacks[k]

\* C1 witness: a call has just returned whose argument names a handler for
\* the first kind and none for the second.
C1_Witness ==
  /\ pc = 0
  /\ ret.op = "set_event_callbacks"
  /\ callbacks[KindOrder[1]] = "h2"
  /\ callbacks[KindOrder[2]] = None
  /\ slots = callbacks

\* The table is torn: one slot already holds the new entry, which differs
\* from the old one, while another still holds the old entry, which differs
\* from the new one.
Torn ==
  \E k1, k2 \in Kinds :
    /\ slots[k1] = callbacks[k1] /\ slots[k1] # old[k1]
    /\ slots[k2] = old[k2] /\ slots[k2] # callbacks[k2]

\* A trampoline can dispatch: the runtime of some environment would send an
\* event of some kind.
CanDispatch ==
  \E e \in Envs, k \in Kinds :
    k \in jvmti[e].enabled /\ k \in jvmti[e].callbacks

\* C2 (atomic replacement): in no reachable state is the table torn between
\* the old and the new configuration while a trampoline can dispatch.
C2_AtomicReplacement == ~(Torn /\ CanDispatch)

\* C3 as claimed (mode/callback independence): at every occurrence of an
\* event of kind k a handler is invoked, exactly once, if and only if k is
\* enabled and a handler for k is registered. (Taken between two facade
\* calls only, where "registered" has one meaning.)
C3_Original ==
  [][ \A e \in Envs, k \in Kinds :
        (pc = 0 /\ NativeEvent(e, k)) =>
          /\ Len(invoked') <= 1
          /\ (Len(invoked') = 1) <=> (k \in jvmti[e].enabled /\ slots[k] # None)
    ]_vars

\* C3 as amended: at every occurrence of an event of kind k in the runtime
\* of an environment, a handler is invoked if and only if k is enabled in
\* that environment, that environment's installed native table has a
\* callback for k, and a handler for k is registered; it is then the
\* registered handler, invoked exactly once.
C3_ModeCallbackIndependence ==
  [][ \A e \in Envs, k \in Kinds :
        NativeEvent(e, k) =>
          /\ Len(invoked') <= 1
          /\ (Len(invoked') = 1) <=>
               /\ k \in jvmti[e].enabled
               /\ k \in jvmti[e].callbacks
               /\ slots[k] # None
          /\ Len(invoked') = 1 => invoked'[1] = slots[k]
    ]_vars

\* C3 witness: an event has just invoked a handler, in a state where another
\* kind is enabled without a handler or has a handler without being enabled.
C3_Witness ==
  /\ ret.op = "event"
  /\ Len(invoked) = 1
  /\ \E e \in Envs, k \in Kinds :
       /\ k \in jvmti[e].callbacks
       /\ (k \in jvmti[e].enabled) # (slots[k] # None)


\* The state the two event operations act on, after set_event_callbacks and
\* set_event_notification_mode have both run to completion on environment
\* env with native success, in either order: the slots, the environment, and
\* the handlers an event of each kind would then invoke.
CallbacksThenMode(table, env, cbs, event, mode) ==
  LET a == set_event_callbacks(table, env, cbs, 0)
      b == set_event_notification_mode(a.env, event, mode, 0)
  IN  [ slots |-> a.slots, env |-> b.env,
        delivered |-> [k \in Kinds |-> dispatch(a.slots, b.env, k)] ]

ModeThenCallbacks(table, env, cbs, event, mode) ==
  LET a == set_event_notification_mode(env, event, mode, 0)
      b == set_event_callbacks(table, a.env, cbs, 0)
  IN  [ slots |-> b.slots, env |-> b.env,
        delivered |-> [k \in Kinds |-> dispatch(b.slots, b.env, k)] ]

\* C4 (order independence): from every state between two facade calls, for
\* every configuration, event kind and mode, set_event_callbacks followed by
\* set_event_notification_mode leaves the same slots, the same native
\* environment (installed table and enabled kinds) and the same deliveries
\* as the two in the opposite order, when both native calls succeed. (The
\* first conjunct ties the operator set_event_callbacks to the steps the
\* model takes: when the register calls are done the slots are what the
\* operator computes from the slots at entry.)
C4_OrderIndependence ==
  /\ pc = NumKinds + 1 => slots = set_event_callbacks(old, jvmti[self], callbacks, 0).slots
  /\ pc = 0 =>
       \A e \in Envs, cbs \in EventCallbacks, event \in Kinds, mode \in BOOLEAN :
         CallbacksThenMode(slots, jvmti[e], cbs, event, mode)
           = ModeThenCallbacks(slots, jvmti[e], cbs, event, mode)

\* C4 witness: both operations have acted: a table is installed, a kind is
\* enabled and a handler is registered, and enabling a kind not yet enabled
\* together with a new configuration is a case of the claim.
C4_Witness ==
  /\ pc = 0
  /\ \E e \in Envs, k \in Kinds :
       /\ jvmti[e].callbacks # {}
       /\ k \in jvmti[e].enabled
       /\ slots[k] # None
       /\ \E k2 \in Kinds : k2 \notin jvmti[e].enabled

\* C5 (no events before configuration): while the registry is Unconfigured,
\* that is until the first set_event_callbacks call has returned, no
\* occurrence of an event of any kind invokes a user handler, whatever
\* notification modes are enabled.
C5_NoEventsBeforeConfiguration ==
  [][ (registry = "Unconfigured" /\ \E e \in Envs, k \in Kinds : NativeEvent(e, k))
        => invoked' = << >> ]_vars

\* C5 witness: an event of an enabled kind has just occurred while the
\* registry was Unconfigured.
C5_Witness ==
  /\ registry = "Unconfigured"
  /\ ret.op = "event"
  /\ \E e \in Envs : jvmti[e].enabled # {}


\* C6 (union law): whenever add_capabilities(n) returns Ok(r), every flag
\* true in the environment's set before the call and every flag true in n is
\* true in r; and no add_capabilities call clears a flag of the environment.
C6_UnionLaw ==
  [][ \A e \in Envs, n \in Capabilities, status, status2 \in StatusCodes :
        Call_add_capabilities(e, n, status, status2) =>
          /\ ret'.tag = "Ok" =>
               \A c \in CapNames :
                 (from_native(jvmti[e].capabilities)[c] \/ n[c]) => ret'.caps[c]
          /\ \A i \in 1..NumCaps :
               jvmti[e].capabilities[i] = 1 => jvmti'[e].capabilities[i] = 1
    ]_vars

C8_SetEventCallbacksFailure ==
  [][ \A status \in StatusCodes :
        (status # 0 /\ Return_set_event_callbacks(status)) =>
          /\ ret'.tag = "Some"
          /\ ret'.err = wrap_error(status)
          /\ ret'.err # "NoError"
          /\ slots' = callbacks
          /\ \A e \in Envs : jvmti'[e].callbacks = jvmti[e].callbacks
    ]_vars

\* C8 witness: set_event_callbacks has just failed; the slots hold a handler
\* of the new configuration although no table was ever installed.
C8_Witness ==
  /\ ret.op = "set_event_callbacks"
  /\ ret.tag = "Some"
  /\ \E k \in Kinds : slots[k] # None
  /\ \A e \in Envs : jvmti[e].callbacks = {}

\* The last step returned the translation of status as an error.
ReturnedError(status) ==
  /\ ret'.tag \in {"Err", "Some"}
  /\ ret'.err = wrap_error(status)

\* C9 (no swallowed native failures): whenever a native call made by a
\* facade operation returns a nonzero status, the operation returns the
\* translation of that status as an error.
C9_NoSwallowedFailures ==
  [][ \A e \in Envs, status \in StatusCodes \ {0} :
        /\ \A word \in VersionWords :
             Call_get_version_number(e, word, status) => ReturnedError(status)
        /\ Call_get_capabilities(e, status) => ReturnedError(status)
        /\ \A n \in Capabilities :
             /\ \A status2 \in StatusCodes :
                  Call_add_capabilities(e, n, status, status2) => ReturnedError(status)
             /\ Call_add_capabilities(e, n, 0, status) => ReturnedError(status)
        /\ \A event \in Kinds, mode \in BOOLEAN :
             Call_set_event_notification_mode(e, event, mode, status)
               => ReturnedError(status)
        /\ \A t \in JavaThreads, info \in NativeThreadInfos :
             Call_get_thread_info(e, t, TRUE, info, status) => ReturnedError(status)
        /\ Return_set_event_callbacks(status) => ReturnedError(status)
    ]_vars

\* C10 (unsupported vs. failed): no operation returns an error whose kind is
\* NoError; in particular get_thread_info never returns Err(NoError).
C10_ErrorIsNeverNoError ==
  ret.tag \in {"Err", "Some"} => ret.err # "NoError"


\* The number a u32 held as two halves stands for (for values below 2^31).
u32_value(u) == u.hi * 65536 + u.lo

\* C11 (get_thread_info result): with the native function bound,
\* get_thread_info(t) returns Ok exactly when the native status is 0; the
\* Thread then has the input handle as id, the native record's priority,
\* is_daemon true exactly when the native daemon flag is nonzero, and the
\* empty string for a null name buffer (the buffer's text otherwise); on a
\* nonzero status it returns Err of the translated error and no Thread.
C11_GetThreadInfoResult ==
  [][ \A e \in Envs, t \in JavaThreads, info \in NativeThreadInfos,
         status \in StatusCodes :
        Call_get_thread_info(e, t, TRUE, info, status) =>
          /\ ret'.tag = "Ok" <=> status = 0
          /\ status = 0 =>
               /\ ret'.thread.id = t
               /\ u32_value(ret'.thread.priority) = info.priority
               /\ ret'.thread.is_daemon <=> info.is_daemon # 0
               /\ ret'.thread.name = IF info.name = NullPtr THEN "" ELSE info.name
          /\ status # 0 =>
               /\ ret'.tag = "Err"
               /\ ret'.err = wrap_error(status)
               /\ ret'.err # "NoError"
               /\ ret'.thread = NoThread
    ]_vars

\* C11 witness: get_thread_info has just returned the Thread of a daemon
\* thread whose name buffer was null.
C11_Witness ==
  /\ ret.op = "get_thread_info"
  /\ ret.tag = "Ok"
  /\ ret.thread.id = "t2"
  /\ ret.thread.name = ""
  /\ ret.thread.is_daemon
  /\ u32_value(ret.thread.priority) = 10

\* C12 (get_capabilities idempotence): a get_capabilities call that follows
\* a get_capabilities call on the same environment, nothing in between,
\* returns the same capability set, and no get_capabilities call changes the
\* environment.
C12_GetCapabilitiesIdempotence ==
  [][ \A e \in Agent, status \in StatusCodes :
        Call_get_capabilities(e, status) =>
          /\ jvmti' = jvmti
          /\ ret.op = "get_capabilities" => ret'.caps = ret.caps
    ]_vars

\* C13 (set_event_notification_mode frame): a set_event_notification_mode
\* call for kind K, succeeding or failing, leaves every handler slot, the
\* registry's phase, every environment's installed callback table and
\* capability set, and the enabled status of every kind other than K as they
\* were; only the environment it is called on can change at all.
C13_ModeFrame ==
  [][ ret'.op = "set_event_notification_mode" =>
        \A e \in Envs, K \in Kinds, m \in BOOLEAN, status \in StatusCodes :
          Call_set_event_notification_mode(e, K, m, status) =>
            /\ slots' = slots
            /\ registry' = registry
            /\ \A x \in Envs :
                 /\ jvmti'[x].callbacks = jvmti[x].callbacks
                 /\ jvmti'[x].capabilities = jvmti[x].capabilities
                 /\ jvmti'[x].enabled \ {K} = jvmti[x].enabled \ {K}
                 /\ x # e => jvmti'[x] = jvmti[x]
    ]_vars

\* C13 witness: set_event_notification_mode has just returned on an
\* environment that holds a capability, has a callback table installed and
\* has two kinds enabled, while a handler is registered.
C13_Witness ==
  /\ ret.op = "set_event_notification_mode"
  /\ \E k \in Kinds : slots[k] # None
  /\ \E e \in Agent :
       /\ jvmti[e].callbacks # {}
       /\ Cardinality(jvmti[e].enabled) >= 2
       /\ jvmti[e].capabilities # to_native(Capabilities_new)

\* C14 (add_capabilities returns the environment's actual set): whenever
\* add_capabilities returns Ok(R), R is the capability set the environment
\* holds when the call returns.
C14_ReturnsActualSet ==
  [][ \A e \in Agent, n \in Capabilities, status, status2 \in StatusCodes :
        (Call_add_capabilities(e, n, status, status2) /\ ret'.tag = "Ok") =>
          ret'.caps = from_native(jvmti'[e].capabilities)
    ]_vars

\* The six operations of the facade.
FacadeOps ==
  { "get_version_number", "add_capabilities", "get_capabilities",
    "set_event_callbacks", "set_event_notification_mode", "get_thread_info" }

\* C15 as stated (one-shot native calls): every facade operation makes
\* exactly one native call per invocation.
C15_Original == ret.op \in FacadeOps => ret.calls = 1

\* C15 (native calls per invocation): add_capabilities makes two native
\* calls when it returns Ok (AddCapabilities, then GetCapabilities) and one
\* when it returns Err; get_thread_info makes none when the GetThreadInfo
\* function is unbound, which it reports as Err(NoError), and one otherwise;
\* each of the other four operations makes exactly one, on the success and
\* on the failure path.
C15_NativeCallCount ==
  ret.op \in FacadeOps =>
    ret.calls =
      CASE ret.op = "add_capabilities" /\ ret.tag = "Ok" -> 2
        [] ret.op = "get_thread_info" /\ ret.tag = "Err" /\ ret.err = "NoError" -> 0
        [] OTHER -> 1

\* C15 witness: add_capabilities has just returned Ok after its two native
\* calls.
C15_Witness ==
  /\ ret.op = "add_capabilities"
  /\ ret.tag = "Ok"
  /\ ret.calls = 2

\* C16 (process-wide slots): between two set_event_callbacks calls, an event
\* of kind k that any environment sends through its installed table invokes
\* the handler that the configuration of the last set_event_callbacks call,
\* on whichever environment it was made, names for k, and nothing if it
\* names none.
C16_LastCallWinsForAllEnvs ==
  [][ \A e \in Envs, k \in Kinds :
        ( /\ pc = 0
          /\ registry = "Configured"
          /\ EventSent(jvmti[e], k)
          /\ NativeEvent(e, k) ) =>
          invoked' = IF callbacks[k] = None THEN << >> ELSE << callbacks[k] >>
    ]_vars

\* C16 witness: the last set_event_callbacks call was made on B, B sends no
\* event of any kind, and an event sent through A's installed table has just
\* invoked the handler h2 of B's configuration, which names h2 for one kind
\* only.
C16_Witness ==
  /\ pc = 0
  /\ self = "B"
  /\ jvmti["B"].enabled = {}
  /\ jvmti["A"].callbacks # {}
  /\ ret.op = "event"
  /\ invoked = << "h2" >>
  /\ Cardinality({ k \in Kinds : callbacks[k] = "h2" }) = 1

\* C17 (only set_event_callbacks changes the slots or an installed table):
\* every step that changes a handler slot, an environment's installed
\* callback table or the registry's phase is a step of set_event_callbacks,
\* so none of get_version_number, get_capabilities, add_capabilities,
\* set_event_notification_mode, get_thread_info and the delivery of an event
\* changes any of them.
C17_OnlySetEventCallbacksWrites ==
  [][ ( \/ slots' # slots
        \/ registry' # registry
        \/ \E e \in Envs : jvmti'[e].callbacks # jvmti[e].callbacks ) =>
        ( \/ Register
          \/ \E status \in StatusCodes : Return_set_event_callbacks(status) )
    ]_vars

\* C17 witness: in the Configured phase, with a handler registered and a
\* table installed, add_capabilities has just returned Ok.
C17_Witness ==
  /\ registry = "Configured"
  /\ pc = 0
  /\ \E k \in Kinds : slots[k] # None
  /\ \E e \in Agent : jvmti[e].callbacks # {}
  /\ ret.op = "add_capabilities"
  /\ ret.tag = "Ok"

=============================================================================
